---- MODULE Spec2Model ----
(***************************************************************************)
(* KiteLogin (src/kitelogin.py): the constructor loads the credentials,    *)
(* derives the login URL, opens a Chrome session and runs __login, which   *)
(* drives the portal through page load, credential submission, PIN         *)
(* submission and token extraction.  The portal (page body, elements,      *)
(* error banner, current URL) is the environment: every read of it is a    *)
(* choice over the bounded sets below.  pc is the line of kitelogin.py     *)
(* that runs next.                                                         *)
(***************************************************************************)
EXTENDS Integers, Sequences, FiniteSets, TLC

VARIABLES
    pc,             \* "L<n>": line n of kitelogin.py runs next; "raised"; "returned"
    caller,         \* the line that called _raise_error: "L144", "L156", or "-"
    creds,          \* self.__api_key, __username, __password, __pin
    login_url,      \* self.login_url
    session,        \* self.driver: "none" (not created), "open", "closed"
    banner,         \* the page's .error element: NoBanner, or its text
    driverUrl,      \* the session's current URL (driver.current_url)
    body,           \* __login's local body (line 126), while it is live
    e,              \* the AssertionError's message caught at line 128
    has_error,      \* _raise_error's local has_error
    current_url,    \* __login's local current_url
    rt,             \* __login's local rt
    request_token,  \* self.__request_token
    got,            \* what get_request_token() last returned to the caller
    raised,         \* the exception propagating out of the constructor, or None
    raisedMsg,      \* its message
    log,            \* login.log: records [level, msg]
    console,        \* what print() wrote
    trace           \* the session operations performed so far, in order

vars == <<pc, caller, creds, login_url, session, banner, driverUrl, body, e,
          has_error, current_url, rt, request_token, got, raised, raisedMsg,
          log, console, trace>>

----------------------------------------------------------------------------
(* Bounds of the model.                                                    *)

\* the page body text has at most this many symbols
MaxBodyLen == 3

\* a URL's query string has at most this many parameters
MaxQueryLen == 2

\* the caller calls quit() at most this many times after the constructor returned
MaxCallerQuits == 2

----------------------------------------------------------------------------
(* Values.                                                                 *)

\* Python's None
None == "None"

\* the four fields of login.json, in the order lines 64-67 read them
Fields == <<"api_key", "username", "password", "pin">>

FieldSet == {Fields[i] : i \in DOMAIN Fields}

\* login.json: missing, not parsable as JSON, or a JSON object holding some of the fields
Configs ==
    {[kind |-> k, keys |-> {}] : k \in {"missing", "unparsable"}}
        \cup {[kind |-> "object", keys |-> ks] : ks \in SUBSET FieldSet}

\* the value login.json holds for a field
ConfigValue(f) ==
    CASE f = "api_key"  -> "KEY"
      [] f = "username" -> "USER"
      [] f = "password" -> "PASS"
      [] f = "pin"      -> "123456"

NoCreds == [f \in FieldSet |-> None]

\* the login_url argument of the constructor
LoginUrlArgs == {None, "", "https://kite.zerodha.com/connect/login?api_key=KEY&v=3"}

\* the body text, as a sequence of symbols: braces, a "message" member with a
\* text, another member, or plain text
Members == {"message:Invalid api_key", "message:", "status:error"}

BodySyms == {"{", "}", "Login to Kite"} \cup Members

Bodies == UNION {[1..n -> BodySyms] : n \in 0..MaxBodyLen}

NoBody == <<"-">>

\* the page has no .error element
NoBanner == "NoBanner"

BannerTexts == {"", "Invalid username or password", "Invalid PIN"}

Keys == {"request_token", "status"}

\* raw (percent-encoded) parameter values, the blank one included
RawValues == {"", "ABC123", "XYZ", "A%2BB"}

Params == Keys \X RawValues

Queries == UNION {[1..n -> Params] : n \in 0..MaxQueryLen}

Urls == [path : {"/connect/login", "/redirect"}, query : Queries]

NoUrl == [path |-> "", query |-> <<>>]

\* the URLs of the portal's login page
LoginPageUrls ==
    {[path |-> "/connect/login", query |-> q] : q \in {<<>>, << <<"status", "XYZ">> >>}}

----------------------------------------------------------------------------
(* The pure functions the flow uses.                                       *)

\* the position of a field in the order lines 64-67 read them
FieldIndex(f) == CHOOSE i \in DOMAIN Fields : Fields[i] = f

\* open() and json.load() succeed and every subscript of lines 64-67 finds its key
LoadSucceeds(cfg) == cfg.kind = "object" /\ cfg.keys = FieldSet

\* the exception lines 62-67 raise, which line 68 catches
LoadError(cfg) ==
    CASE cfg.kind = "missing"    -> "FileNotFoundError"
      [] cfg.kind = "unparsable" -> "JSONDecodeError"
      [] OTHER                   -> "KeyError"

\* the fields after lines 62-67: each assignment runs only if all before it did
LoadedCreds(cfg) ==
    [f \in FieldSet |->
        IF cfg.kind = "object" /\ \A j \in 1..FieldIndex(f) : Fields[j] \in cfg.keys
        THEN ConfigValue(f)
        ELSE None]

\* KiteConnect(api_key=...).login_url(): the key formatted into the portal's URL
KiteConnectLoginUrl(api_key) ==
    IF api_key = None
    THEN "https://kite.zerodha.com/connect/login?api_key=None&v=3"
    ELSE "https://kite.zerodha.com/connect/login?api_key=KEY&v=3"

\* line 47: the argument if it is truthy, else the URL derived from the key
ChooseLoginUrl(arg, api_key) ==
    IF arg # None /\ arg # "" THEN arg ELSE KiteConnectLoginUrl(api_key)

\* the condition of the assert of line 127 (b is not empty)
AssertCondition(b) == b[1] # "{" /\ b[Len(b)] # "}"

\* json.loads(b) succeeds (given that b starts with "{" or ends with "}"): b is an object
JsonLoadsOk(b) ==
    /\ Len(b) >= 2
    /\ b[1] = "{"
    /\ b[Len(b)] = "}"
    /\ \A i \in 2..(Len(b) - 1) : b[i] \in Members

IsMessage(sym) == sym \in {"message:Invalid api_key", "message:"}

\* the object has a "message" key
HasMessage(b) == \E i \in 2..(Len(b) - 1) : IsMessage(b[i])

MessageText(sym) == IF sym = "message:" THEN "" ELSE "Invalid api_key"

\* json.loads(b)['message']: the value of the last "message" member
JsonMessage(b) ==
    LET last == CHOOSE i \in 2..(Len(b) - 1) :
                    /\ IsMessage(b[i])
                    /\ \A j \in (i + 1)..(Len(b) - 1) : ~IsMessage(b[j])
    IN  MessageText(b[last])

\* urllib's unquote of a raw value (%2B is "+")
Unquote(v) == IF v = "A%2BB" THEN "A+B" ELSE v

\* parse_qs(query)[key]: the decoded values of the key's parameters, in order,
\* the blank ones dropped (keep_blank_values is False); the key is absent when none is left
ParseQs(query, key) ==
    LET kept == SelectSeq(query, LAMBDA p : p[1] = key /\ p[2] # "")
    IN  [i \in 1..Len(kept) |-> Unquote(kept[i][2])]

\* Python's truth value of has_error (line 99)
Truthy(x) == x # None /\ x # ""

----------------------------------------------------------------------------
(* Frames and helpers of the actions.                                      *)

cfgVars == <<creds, login_url>>
pageVars == <<banner, driverUrl>>
localVars == <<body, e, has_error, current_url, rt>>
outVars == <<request_token, got>>
excVars == <<raised, raisedMsg>>
ioVars == <<log, console>>

\* an operation on the session, recorded with the session's state and who performed it
Op(name, by) == [op |-> name, session |-> session, by |-> by]

\* an exception propagates out of __login and the constructor
Raise(exc, msg) ==
    /\ pc' = "raised"
    /\ raised' = exc
    /\ raisedMsg' = msg

\* logging.warning / logging.info: the message is a tuple of its parts
Warn(msg) == Append(log, [level |-> "WARNING", msg |-> msg])

Info(msg) == Append(log, [level |-> "INFO", msg |-> msg])

----------------------------------------------------------------------------
(* The constructor, lines 42-53.                                           *)

Init ==
    /\ pc = "L45"
    /\ caller = "-"
    /\ creds = NoCreds
    /\ login_url = None
    /\ session = "none"
    /\ banner = NoBanner
    /\ driverUrl = NoUrl
    /\ body = NoBody
    /\ e = None
    /\ has_error = None
    /\ current_url = NoUrl
    /\ rt = None
    /\ request_token = None
    /\ got = None
    /\ raised = None
    /\ raisedMsg = None
    /\ log = <<>>
    /\ console = <<>>
    /\ trace = <<>>

\* __get_login_details with the exception of lines 61-67 not caught
get_login_details_uncaught ==
    /\ pc = "L45"
    /\ \E cfg \in Configs :
        /\ creds' = LoadedCreds(cfg)
        /\ IF LoadSucceeds(cfg)
           THEN pc' = "L47" /\ UNCHANGED excVars
           ELSE Raise(LoadError(cfg), "")
    /\ UNCHANGED <<caller, login_url, session, pageVars, localVars, outVars, ioVars, trace>>

\* line 45, __get_login_details: the fields are assigned one by one until a
\* step fails; the failure is logged and swallowed
get_login_details ==
    /\ pc = "L45"
    /\ \E cfg \in Configs :
        /\ creds' = LoadedCreds(cfg)
        /\ log' = IF LoadSucceeds(cfg) THEN log ELSE Warn(<<LoadError(cfg)>>)
    /\ pc' = "L47"
    /\ UNCHANGED <<caller, login_url, session, pageVars, localVars, outVars, excVars,
                   console, trace>>

\* line 47
SetLoginUrl ==
    /\ pc = "L47"
    /\ \E arg \in LoginUrlArgs : login_url' = ChooseLoginUrl(arg, creds["api_key"])
    /\ pc' = "L52"
    /\ UNCHANGED <<caller, creds, session, pageVars, localVars, outVars, excVars,
                   ioVars, trace>>

\* lines 49-53: the Chrome session is created and __login is entered
CreateDriver ==
    /\ pc = "L52"
    /\ session' = "open"
    /\ pc' = "L122"
    /\ UNCHANGED <<caller, cfgVars, pageVars, localVars, outVars, excVars, ioVars, trace>>

----------------------------------------------------------------------------
(* The session-close wrapper, lines 107-114.                               *)

\* quit() written as close-the-window-then-quit: close() raises on a closed session
quit_close_first(next) ==
    /\ trace' = Append(trace, Op("quit", IF pc = "returned" THEN "caller" ELSE "login"))
    /\ IF session = "closed"
       THEN /\ raised' = "WebDriverException"
            /\ raisedMsg' = "invalid session id"
            /\ pc' = "quit raised"
            /\ UNCHANGED session
       ELSE /\ session' = "closed"
            /\ pc' = next
            /\ UNCHANGED excVars

\* quit(): driver.quit() ends the session; Chrome's quit() swallows the error
\* of a session that is already gone, so nothing is raised; control goes to next
quit(next) ==
    /\ trace' = Append(trace, Op("quit", IF pc = "returned" THEN "caller" ELSE "login"))
    /\ session' = "closed"
    /\ pc' = next
    /\ UNCHANGED excVars

----------------------------------------------------------------------------
(* __login, lines 122-131: page load and the API-key check.                *)

\* line 122: driver.get loads the portal's page for the login URL
Navigate ==
    /\ pc = "L122"
    /\ trace' = Append(trace, Op("get", "login"))
    /\ \E u \in LoginPageUrls : driverUrl' = u
    /\ banner' = NoBanner
    /\ pc' = "L126"
    /\ UNCHANGED <<caller, cfgVars, session, localVars, outVars, excVars, ioVars>>

\* line 126: wait for the body element and read its text
ReadBody ==
    /\ pc = "L126"
    /\ trace' = Append(trace, Op("find body", "login"))
    /\ \/ /\ Raise("TimeoutException", "")
          /\ UNCHANGED body
       \/ /\ \E b \in Bodies : body' = b
          /\ pc' = "L127"
          /\ UNCHANGED excVars
    /\ UNCHANGED <<caller, cfgVars, session, pageVars, e, has_error, current_url, rt,
                   outVars, ioVars>>

\* line 127 and the except clause of line 128: body[0] of an empty text is an
\* IndexError; a failing assert evaluates its message, json.loads(body)['message'],
\* which may itself raise; only the AssertionError is caught
AssertBody ==
    /\ pc = "L127"
    /\ \/ /\ Len(body) = 0
          /\ Raise("IndexError", "")
          /\ UNCHANGED <<body, e>>
       \/ /\ Len(body) > 0
          /\ AssertCondition(body)
          /\ pc' = "L133"
          /\ body' = NoBody      \* the local is not read again
          /\ UNCHANGED <<e, excVars>>
       \/ /\ Len(body) > 0
          /\ ~AssertCondition(body)
          /\ ~JsonLoadsOk(body)
          /\ Raise("JSONDecodeError", "")
          /\ UNCHANGED <<body, e>>
       \/ /\ Len(body) > 0
          /\ ~AssertCondition(body)
          /\ JsonLoadsOk(body)
          /\ ~HasMessage(body)
          /\ Raise("KeyError", "message")
          /\ UNCHANGED <<body, e>>
       \/ /\ Len(body) > 0
          /\ ~AssertCondition(body)
          /\ JsonLoadsOk(body)
          /\ HasMessage(body)
          /\ e' = JsonMessage(body)
          /\ pc' = "L129"
          /\ UNCHANGED <<body, excVars>>
    /\ UNCHANGED <<caller, cfgVars, session, pageVars, has_error, current_url, rt,
                   outVars, ioVars, trace>>

\* line 129
LogInvalidKey ==
    /\ pc = "L129"
    /\ log' = Warn(<<e>>)
    /\ pc' = "L130"
    /\ UNCHANGED <<caller, cfgVars, session, pageVars, localVars, outVars, excVars,
                   console, trace>>

\* line 130 left out: the handler re-raises with the session still open
QuitInvalidKey_skipped ==
    /\ pc = "L130"
    /\ pc' = "L131"
    /\ UNCHANGED <<caller, cfgVars, session, pageVars, localVars, outVars, excVars,
                   ioVars, trace>>

\* line 130
QuitInvalidKey ==
    /\ pc = "L130"
    /\ quit("L131")
    /\ UNCHANGED <<caller, cfgVars, pageVars, localVars, outVars, ioVars>>

\* line 131: AssertionError(e), whose text is e's
RaiseInvalidKey ==
    /\ pc = "L131"
    /\ Raise("AssertionError", e)
    /\ UNCHANGED <<caller, cfgVars, session, pageVars, localVars, outVars, ioVars, trace>>

----------------------------------------------------------------------------
(* __login, lines 133-140: credential submission.                          *)

\* the wait for a required element wrapped so that a timeout closes the session
\* before it propagates
FindRequired_closes(at, name, next) ==
    /\ pc = at
    /\ \/ /\ Raise("TimeoutException", "")
          /\ trace' = trace \o <<Op(name, "login"), Op("quit", "login")>>
          /\ session' = "closed"
       \/ /\ pc' = next
          /\ trace' = Append(trace, Op(name, "login"))
          /\ UNCHANGED <<excVars, session>>
    /\ UNCHANGED <<caller, cfgVars, pageVars, localVars, outVars, ioVars>>

\* _get_element_by_css for an element the flow requires: found, or TimeoutException
FindRequired(at, name, next) ==
    /\ pc = at
    /\ trace' = Append(trace, Op(name, "login"))
    /\ \/ Raise("TimeoutException", "")
       \/ pc' = next /\ UNCHANGED excVars
    /\ UNCHANGED <<caller, cfgVars, session, pageVars, localVars, outVars, ioVars>>

\* send_keys of a credential: None cannot be typed (TypeError)
SendKeys(at, field, next) ==
    /\ pc = at
    /\ trace' = Append(trace, Op("send_keys", "login"))
    /\ \/ creds[field] = None /\ Raise("TypeError", "")
       \/ creds[field] # None /\ pc' = next /\ UNCHANGED excVars
    /\ UNCHANGED <<caller, cfgVars, session, pageVars, localVars, outVars, ioVars>>

\* line 133
FindUsername == FindRequired("L133", "find input#userid", "L134")

\* line 134
FindPassword == FindRequired("L134", "find input#password", "L136")

\* line 136
SendUsername == SendKeys("L136", "username", "L137")

\* line 137
SendPassword == SendKeys("L137", "password", "L140")

\* line 140, _click_submit: the portal answers the submission by rendering the
\* login page again, with or without an error banner
ClickLogin ==
    /\ pc = "L140"
    /\ trace' = Append(trace, Op("click submit", "login"))
    /\ \/ /\ Raise("TimeoutException", "")
          /\ UNCHANGED pageVars
       \/ /\ \E bn \in {NoBanner} \cup BannerTexts : banner' = bn
          /\ \E u \in LoginPageUrls : driverUrl' = u
          /\ pc' = "L144"
          /\ UNCHANGED excVars
    /\ UNCHANGED <<caller, cfgVars, session, localVars, outVars, ioVars>>

----------------------------------------------------------------------------
(* _raise_error and _find_error, lines 81-102.                             *)

\* line 144: the error check after the credentials
CheckCredentialError ==
    /\ pc = "L144"
    /\ caller' = "L144"
    /\ pc' = "L98"
    /\ UNCHANGED <<cfgVars, session, pageVars, localVars, outVars, excVars, ioVars, trace>>

\* _find_error without its except clause: the timeout of the banner wait propagates
FindError_uncaught ==
    /\ pc = "L98"
    /\ trace' = Append(trace, Op("find .error", "login"))
    /\ IF banner = NoBanner
       THEN Raise("TimeoutException", "") /\ UNCHANGED has_error
       ELSE has_error' = banner /\ pc' = "L99" /\ UNCHANGED excVars
    /\ UNCHANGED <<caller, cfgVars, session, pageVars, body, e, current_url, rt,
                   outVars, ioVars>>

\* _find_error with a wait that has no timeout: without a banner it never returns
FindError_waits ==
    /\ pc = "L98"
    /\ IF banner = NoBanner
       THEN UNCHANGED <<trace, has_error, pc>>
       ELSE /\ trace' = Append(trace, Op("find .error", "login"))
            /\ has_error' = banner
            /\ pc' = "L99"
    /\ UNCHANGED <<caller, cfgVars, session, pageVars, body, e, current_url, rt,
                   outVars, excVars, ioVars>>

\* line 98, _find_error: the banner's text, or None when the wait times out
FindError ==
    /\ pc = "L98"
    /\ trace' = Append(trace, Op("find .error", "login"))
    /\ has_error' = IF banner = NoBanner THEN None ELSE banner
    /\ pc' = "L99"
    /\ UNCHANGED <<caller, cfgVars, session, pageVars, body, e, current_url, rt,
                   outVars, excVars, ioVars>>

\* line 99: a falsy has_error (None, or an empty text) returns to the caller
TestHasError ==
    /\ pc = "L99"
    /\ pc' = IF Truthy(has_error) THEN "L100"
             ELSE IF caller = "L144" THEN "L146" ELSE "L158"
    /\ UNCHANGED <<caller, cfgVars, session, pageVars, localVars, outVars, excVars,
                   ioVars, trace>>

\* line 100
LogError ==
    /\ pc = "L100"
    /\ log' = Warn(<<has_error>>)
    /\ pc' = "L101"
    /\ UNCHANGED <<caller, cfgVars, session, pageVars, localVars, outVars, excVars,
                   console, trace>>

\* line 101
QuitOnError ==
    /\ pc = "L101"
    /\ quit("L102")
    /\ UNCHANGED <<caller, cfgVars, pageVars, localVars, outVars, ioVars>>

\* line 102 without its raise: _raise_error returns to its caller
RaiseValueError_returns ==
    /\ pc = "L102"
    /\ pc' = IF caller = "L144" THEN "L146" ELSE "L158"
    /\ UNCHANGED <<caller, cfgVars, session, pageVars, localVars, outVars, excVars,
                   ioVars, trace>>

\* line 102
RaiseValueError ==
    /\ pc = "L102"
    /\ Raise("ValueError", has_error)
    /\ UNCHANGED <<caller, cfgVars, session, pageVars, localVars, outVars, ioVars, trace>>

----------------------------------------------------------------------------
(* __login, lines 146-172: PIN submission and token extraction.            *)

\* line 146
FindPin == FindRequired("L146", "find input#pin", "L147")

\* line 147
SendPin == SendKeys("L147", "pin", "L149")

\* line 149
RecordUrl ==
    /\ pc = "L149"
    /\ trace' = Append(trace, Op("current_url", "login"))
    /\ current_url' = driverUrl
    /\ pc' = "L151"
    /\ UNCHANGED <<caller, cfgVars, session, pageVars, body, e, has_error, rt, outVars,
                   excVars, ioVars>>

\* lines 149 and 151 swapped: the URL is recorded after the click
ClickPin_then_record ==
    /\ pc = "L151"
    /\ trace' = Append(trace, Op("click submit", "login"))
    /\ \/ /\ Raise("TimeoutException", "")
          /\ UNCHANGED <<pageVars, current_url>>
       \/ /\ \E bn \in {NoBanner} \cup BannerTexts : banner' = bn
          /\ \E u \in Urls \cup {driverUrl} : driverUrl' = u
          /\ current_url' = driverUrl'
          /\ pc' = "L153"
          /\ UNCHANGED excVars
    /\ UNCHANGED <<caller, cfgVars, session, body, e, has_error, rt, outVars, ioVars>>

\* line 151, _click_submit: the portal answers the PIN by staying on the page or
\* by redirecting, in both cases with or without an error banner
ClickPin ==
    /\ pc = "L151"
    /\ trace' = Append(trace, Op("click submit", "login"))
    /\ \/ /\ Raise("TimeoutException", "")
          /\ UNCHANGED pageVars
       \/ /\ \E bn \in {NoBanner} \cup BannerTexts : banner' = bn
          /\ \E u \in Urls \cup {driverUrl} : driverUrl' = u
          /\ pc' = "L153"
          /\ UNCHANGED excVars
    /\ UNCHANGED <<caller, cfgVars, session, localVars, outVars, ioVars>>

\* lines 153-156: after the settle delay the URL is read and compared with the
\* recorded one; the error check runs only when they are equal
CompareUrl ==
    /\ pc = "L153"
    /\ trace' = Append(trace, Op("current_url", "login"))
    /\ \/ /\ driverUrl = current_url
          /\ caller' = "L156"
          /\ pc' = "L98"
       \/ /\ driverUrl # current_url
          /\ pc' = "L158"
          /\ UNCHANGED caller
    /\ UNCHANGED <<cfgVars, session, pageVars, localVars, outVars, excVars, ioVars>>

\* line 158: the settle delay; a page that has not moved yet may be redirected
\* during it (the portal redirects a submission at most once)
Settle ==
    /\ pc = "L158"
    /\ \/ UNCHANGED driverUrl
       \/ /\ driverUrl = current_url
          /\ \E u \in Urls : driverUrl' = u
    /\ pc' = "L159"
    /\ UNCHANGED <<caller, cfgVars, session, banner, localVars, outVars, excVars,
                   ioVars, trace>>

\* line 159
ReadFinalUrl ==
    /\ pc = "L159"
    /\ trace' = Append(trace, Op("current_url", "login"))
    /\ current_url' = driverUrl
    /\ pc' = "L161"
    /\ UNCHANGED <<caller, cfgVars, session, pageVars, body, e, has_error, rt, outVars,
                   excVars, ioVars>>

\* lines 161-162: the success milestone, logged and printed
LogSuccess ==
    /\ pc = "L161"
    /\ log' = Info(<<"Logged in successfully!!">>)
    /\ console' = Append(console, [text |-> "logged in successfully", url |-> current_url])
    /\ pc' = "L167"
    /\ UNCHANGED <<caller, cfgVars, session, pageVars, localVars, outVars, excVars, trace>>

\* line 167 taking the last value of the parameter, [-1], instead of the first
ExtractToken_last ==
    /\ pc = "L167"
    /\ LET values == ParseQs(current_url.query, "request_token")
       IN  \/ /\ Len(values) = 0
              /\ Raise("KeyError", "request_token")
              /\ UNCHANGED rt
           \/ /\ Len(values) > 0
              /\ rt' = values[Len(values)]
              /\ pc' = "L169"
              /\ UNCHANGED excVars
    /\ UNCHANGED <<caller, cfgVars, session, pageVars, body, e, has_error, current_url,
                   outVars, ioVars, trace>>

\* lines 164-167: parse_qs(urlparse(current_url).query)['request_token'][0];
\* a query that leaves the key without a value is a KeyError
ExtractToken ==
    /\ pc = "L167"
    /\ LET values == ParseQs(current_url.query, "request_token")
       IN  \/ /\ Len(values) = 0
              /\ Raise("KeyError", "request_token")
              /\ UNCHANGED rt
           \/ /\ Len(values) > 0
              /\ rt' = values[1]
              /\ pc' = "L169"
              /\ UNCHANGED excVars
    /\ UNCHANGED <<caller, cfgVars, session, pageVars, body, e, has_error, current_url,
                   outVars, ioVars, trace>>

\* line 169
LogToken ==
    /\ pc = "L169"
    /\ log' = Info(<<"Request Token: ", rt>>)
    /\ pc' = "L171"
    /\ UNCHANGED <<caller, cfgVars, session, pageVars, localVars, outVars, excVars,
                   console, trace>>

\* line 171
QuitSuccess ==
    /\ pc = "L171"
    /\ quit("L172")
    /\ UNCHANGED <<caller, cfgVars, pageVars, localVars, outVars, ioVars>>

\* line 53 without its assignment: the token __login returns is dropped
Return_unassigned ==
    /\ pc = "L172"
    /\ pc' = "returned"
    /\ UNCHANGED <<caller, cfgVars, session, pageVars, localVars, outVars, excVars,
                   ioVars, trace>>

\* line 172 and the assignment of line 53: the constructor returns
Return ==
    /\ pc = "L172"
    /\ request_token' = rt
    /\ pc' = "returned"
    /\ UNCHANGED <<caller, cfgVars, session, pageVars, localVars, got, excVars, ioVars,
                   trace>>

----------------------------------------------------------------------------
(* The caller's use of the instance the constructor returned.              *)

\* the quit() calls of the trace made by the given party
QuitCalls(by) == Cardinality({i \in DOMAIN trace : trace[i].op = "quit" /\ trace[i].by = by})

\* the caller calls quit() on the instance
CallerQuit ==
    /\ pc = "returned"
    /\ QuitCalls("caller") < MaxCallerQuits
    /\ quit("returned")
    /\ UNCHANGED <<caller, cfgVars, pageVars, localVars, outVars, ioVars>>

\* lines 174-175
get_request_token ==
    /\ pc = "returned"
    /\ got' = request_token
    /\ UNCHANGED <<pc, caller, cfgVars, session, pageVars, localVars, request_token,
                   excVars, ioVars, trace>>

----------------------------------------------------------------------------

Next ==
    \/ get_login_details
    \/ SetLoginUrl
    \/ CreateDriver
    \/ Navigate
    \/ ReadBody
    \/ AssertBody
    \/ LogInvalidKey
    \/ QuitInvalidKey
    \/ RaiseInvalidKey
    \/ FindUsername
    \/ FindPassword
    \/ SendUsername
    \/ SendPassword
    \/ ClickLogin
    \/ CheckCredentialError
    \/ FindError
    \/ TestHasError
    \/ LogError
    \/ QuitOnError
    \/ RaiseValueError
    \/ FindPin
    \/ SendPin
    \/ RecordUrl
    \/ ClickPin
    \/ CompareUrl
    \/ Settle
    \/ ReadFinalUrl
    \/ LogSuccess
    \/ ExtractToken
    \/ LogToken
    \/ QuitSuccess
    \/ Return
    \/ CallerQuit
    \/ get_request_token

Spec == Init /\ [][Next]_vars

----------------------------------------------------------------------------
(* The vocabulary of the properties.                                       *)

\* the attempt is over: the constructor returned or raised
Finished == pc \in {"raised", "returned"}

\* the terminal state of the login state machine the attempt ended in
Outcome ==
    CASE pc = "returned"                                -> "TokenExtracted"
      [] pc = "raised" /\ raised = "AssertionError"     -> "InvalidApiKey"
      [] pc = "raised" /\ raised = "ValueError" /\ caller = "L144" -> "CredentialError"
      [] pc = "raised" /\ raised = "ValueError" /\ caller = "L156" -> "PinError"
      [] pc = "raised" /\ raised = "TimeoutException"   -> "ElementTimeout"
      [] pc = "raised"                                  -> "Other"
      [] OTHER                                          -> "Running"

\* the number of operations of the given name performed on the session
CountOps(name) == Cardinality({i \in DOMAIN trace : trace[i].op = name})

\* control is inside _raise_error
InRaiseError == pc \in {"L98", "L99", "L100", "L101", "L102"}

\* the body read at line 126 is a JSON error object with a message field
InvalidKeyBody == body # NoBody /\ Len(body) > 0 /\ JsonLoadsOk(body) /\ HasMessage(body)

\* the URL read at line 154 differed from the one recorded at line 149
UrlChanged == caller = "L144" /\ CountOps("current_url") >= 2

\* the positions of the request_token parameters of the final URL's query
TokenParams == {i \in DOMAIN current_url.query : current_url.query[i][1] = "request_token"}

NonBlankTokenParams == {i \in TokenParams : current_url.query[i][2] # ""}

Least(S) == CHOOSE i \in S : \A j \in S : i <= j

\* a token has been extracted from the final URL
TokenTaken == pc \in {"L169", "L171", "L172", "returned"}

----------------------------------------------------------------------------
(* The properties.                                                         *)

\* C1: whenever a login attempt has finished (returned or raised) after the
\* session was created, the session is closed.
C1_ClosedOnEveryExit == Finished => session # "open"

\* C2: within one login attempt quit() is invoked at most once.
C2_QuitAtMostOnce == QuitCalls("login") <= 1

\* C2: a PIN error has been raised after the one quit() of the attempt
C2_Witness ==
    /\ Outcome = "PinError"
    /\ QuitCalls("login") = 1

\* C3: a body that is a JSON error object with a message field always takes the
\* check of line 127 into the handler with that message, and when the
\* AssertionError leaves the attempt it carries that message, the message is the
\* last warning of the log, and the session has been closed by quit().
C3_InvalidApiKey ==
    /\ [][(pc = "L127" /\ InvalidKeyBody) => (pc' = "L129" /\ e' = JsonMessage(body))]_vars
    /\ []((Finished /\ InvalidKeyBody) =>
            /\ Outcome = "InvalidApiKey"
            /\ raisedMsg = JsonMessage(body)
            /\ Len(log) > 0
            /\ log[Len(log)] = [level |-> "WARNING", msg |-> <<JsonMessage(body)>>]
            /\ session = "closed"
            /\ QuitCalls("login") = 1)

\* C3: the attempt ended with InvalidApiKey carrying the portal's message
C3_Witness ==
    /\ Outcome = "InvalidApiKey"
    /\ body = <<"{", "message:Invalid api_key", "}">>
    /\ raisedMsg = "Invalid api_key"
    /\ session = "closed"

\* C4: once the error check after the credentials is over (and before any PIN is
\* submitted) and the page shows a banner (whatever its text), the attempt has
\* raised CredentialError with the banner's text, the session is closed, and
\* the PIN step was not entered.
C4_CredentialError ==
    (caller = "L144" /\ CountOps("click submit") = 1 /\ banner # NoBanner /\ ~InRaiseError) =>
        /\ Outcome = "CredentialError"
        /\ raisedMsg = banner
        /\ session = "closed"

\* C5: once the error check after the PIN is over, with the URL unchanged and a
\* banner on the page (whatever its text), the attempt has raised PinError with
\* the session closed and no token.
C5_PinError ==
    (caller = "L156" /\ banner # NoBanner /\ ~InRaiseError) =>
        /\ Outcome = "PinError"
        /\ session = "closed"
        /\ rt = None
        /\ request_token = None

\* C6: when the URL read after the PIN submission differs from the recorded one,
\* the banner check is not run again and no error is raised: the attempt goes
\* on to token extraction and completes.
C6_UrlChangeDecisive ==
    UrlChanged =>
        /\ raised = None
        /\ CountOps("find .error") = 1

\* C7 as stated: the token taken is the value of the first request_token
\* parameter of the final URL's query, and the extraction fails only if the
\* query has no such parameter.
C7_FirstValue ==
    /\ TokenTaken => /\ TokenParams # {}
                     /\ rt = Unquote(current_url.query[Least(TokenParams)][2])
    /\ (pc = "raised" /\ raised = "KeyError" /\ raisedMsg = "request_token") =>
            TokenParams = {}

\* C7: the token taken is the decoded value of the first request_token parameter
\* of the final URL's query whose value is not blank, whatever surrounds it, and
\* the extraction fails only if the query has no such parameter.
C7_FirstNonBlankValue ==
    /\ TokenTaken => /\ NonBlankTokenParams # {}
                     /\ rt = Unquote(current_url.query[Least(NonBlankTokenParams)][2])
    /\ (pc = "raised" /\ raised = "KeyError" /\ raisedMsg = "request_token") =>
            NonBlankTokenParams = {}

\* C7: a token returned from a query where another parameter comes first
C7_Witness ==
    /\ pc = "returned"
    /\ current_url.query = << <<"status", "XYZ">>, <<"request_token", "ABC123">> >>
    /\ request_token = "ABC123"

C9_LoaderNeverRaises ==
    /\ raised # None => (session # "none" /\ Len(trace) > 0)
    /\ (pc # "L45" /\ creds # [f \in FieldSet |-> ConfigValue(f)]) =>
            (Len(log) > 0 /\ log[1].level = "WARNING")
    /\ (Len(log) > 0 /\ log[1] = [level |-> "WARNING", msg |-> <<"FileNotFoundError">>]) =>
            creds = NoCreds

\* C9: login.json was missing and the first failure came in the login flow
C9_Witness ==
    /\ Len(log) > 0
    /\ log[1] = [level |-> "WARNING", msg |-> <<"FileNotFoundError">>]
    /\ creds = NoCreds
    /\ pc = "raised"
    /\ raised = "TypeError"
    /\ CountOps("find input#userid") = 1

\* C10: every finished attempt ended in TokenExtracted, InvalidApiKey,
\* CredentialError, PinError or ElementTimeout.
C10_FiveOutcomes ==
    Finished => Outcome \in {"TokenExtracted", "InvalidApiKey", "CredentialError",
                             "PinError", "ElementTimeout"}

\* the text starts with "{" and ends with "}"
BothBraces(b) == Len(b) > 0 /\ b[1] = "{" /\ b[Len(b)] = "}"

C12_NoBannerIsNoError ==
    /\ [][(pc = "L98" /\ banner = NoBanner) =>
            (pc' = "L99" /\ has_error' = None /\ raised' = None /\ session' = "open")]_vars
    /\ [][(pc = "L99" /\ has_error = None) =>
            /\ pc' = IF caller = "L144" THEN "L146" ELSE "L158"
            /\ raised' = None
            /\ session' = "open"]_vars

\* C12: the check after the PIN found no banner and the flow went on
C12_Witness ==
    /\ pc = "L158"
    /\ caller = "L156"
    /\ banner = NoBanner
    /\ has_error = None
    /\ CountOps("find .error") = 2
    /\ session = "open"
    /\ raised = None

\* the operations that wait for an element the flow requires
RequiredWaits ==
    {"find body", "find input#userid", "find input#password", "click submit",
     "find input#pin"}

\* C13: an attempt that ended with ElementTimeout ended at the wait of a
\* required element, with quit() never invoked and the session still open, and
\* once the error has propagated no further step of the flow runs.
C13_TimeoutPropagates ==
    /\ [](Outcome = "ElementTimeout" =>
            /\ Len(trace) > 0
            /\ trace[Len(trace)].op \in RequiredWaits
            /\ QuitCalls("login") = 0
            /\ session = "open")
    /\ [][pc = "raised" => UNCHANGED vars]_vars

\* C13: the wait for the PIN input timed out
C13_Witness ==
    /\ Outcome = "ElementTimeout"
    /\ trace[Len(trace)].op = "find input#pin"
    /\ session = "open"
    /\ QuitCalls("login") = 0

\* C14: when the submit of the PIN is due, the recorded URL is the session's
\* URL, read right after the PIN keystrokes; the click leaves the recorded
\* value alone; the check after it reads the session's URL, compares it with
\* the recorded value and enters the banner check exactly when they are equal.
C14_BaselineBeforeSubmit ==
    /\ [](pc = "L151" =>
            /\ current_url = driverUrl
            /\ trace[Len(trace)].op = "current_url"
            /\ trace[Len(trace) - 1].op = "send_keys"
            /\ CountOps("send_keys") = 3
            /\ CountOps("click submit") = 1)
    /\ [][pc = "L151" => current_url' = current_url]_vars
    /\ [][pc = "L153" =>
            /\ trace' = Append(trace, Op("current_url", "login"))
            /\ current_url' = current_url
            /\ IF driverUrl = current_url
               THEN pc' = "L98" /\ caller' = "L156"
               ELSE pc' = "L158" /\ caller' = caller]_vars
    /\ []((caller = "L156" /\ InRaiseError) => driverUrl = current_url)

\* C14: the URL was unchanged after the submit and the banner check has run
C14_Witness ==
    /\ pc = "L99"
    /\ caller = "L156"
    /\ driverUrl = current_url
    /\ CountOps("current_url") = 2
    /\ CountOps("find .error") = 2

\* the session operations of a complete attempt, in the order of lines 122-159,
\* with and without the banner check of line 156
FullFlow(withPinCheck) ==
    <<"get", "find body", "find input#userid", "find input#password", "send_keys",
      "send_keys", "click submit", "find .error", "find input#pin", "send_keys",
      "current_url", "click submit", "current_url">>
        \o (IF withPinCheck THEN <<"find .error">> ELSE <<>>)
        \o <<"current_url">>

\* the operations the attempt performed on the session, quit() left out
LoginSteps ==
    LET login == SelectSeq(trace, LAMBDA t : t.by = "login" /\ t.op # "quit")
    IN  [i \in 1..Len(login) |-> login[i].op]

IsPrefix(s, t) == Len(s) <= Len(t) /\ \A i \in 1..Len(s) : s[i] = t[i]

\* a failure has been detected and is being logged, closed and raised
FailureDetected == pc \in {"L129", "L130", "L131", "L100", "L101", "L102", "raised"}

\* C15, the order: the steps performed are an initial part of the one linear
\* flow, so navigate, the two submissions and every other step happen at most
\* once and in order.
C15_Linear == IsPrefix(LoginSteps, FullFlow(TRUE)) \/ IsPrefix(LoginSteps, FullFlow(FALSE))

\* C15, the credentials: they are typed only after the page-load check passed.
C15_CredentialsAfterCheck == CountOps("send_keys") >= 1 => (e = None /\ body = NoBody)

\* C15, the PIN: it is typed only after the error check found no banner.
C15_PinAfterNoBanner == pc \in {"L149", "L151"} => banner = NoBanner

\* C15, the failures: once a failure is detected the only operation on the
\* session is its close.
C15_NoStepAfterFailure ==
    [][FailureDetected =>
            \/ trace' = trace
            \/ trace' = Append(trace, Op("quit", "login"))]_vars

\* C15: the flow is linear with no retry, the credentials follow the page-load
\* check, the PIN follows an error check that found no banner, and nothing
\* follows a detected failure.
C15_LinearNoRetry ==
    /\ [](C15_Linear /\ C15_CredentialsAfterCheck /\ C15_PinAfterNoBanner)
    /\ C15_NoStepAfterFailure

\* C16: after the loader has run, the four fields are all set or all unset.
C16_AllOrNothing ==
    pc # "L45" => (creds = NoCreds \/ \A f \in FieldSet : creds[f] # None)

----------------------------------------------------------------------------
(* Termination.  The constructor runs on one thread, synchronously: every  *)
(* wait returns or times out within self.timeout (line 42) and every sleep *)
(* elapses, so a step of the attempt that can be taken is taken.  What the *)
(* caller does with the returned instance is up to the caller.             *)

\* a step of the constructor
Attempt == pc # "returned" /\ Next

FairSpec == Spec /\ WF_vars(Attempt)

\* the operations the attempt performed on the session
LoginOps == SelectSeq(trace, LAMBDA t : t.by = "login")

\* C17: every attempt reaches a terminal state (returned or raised), and it
\* performs no more session operations than the linear flow and its one close.
C17_Terminates ==
    /\ <>Finished
    /\ [](Len(LoginOps) <= Len(FullFlow(TRUE)) + 1)

\* C17: the longest attempt, with both banner checks, has returned
C17_Witness ==
    /\ pc = "returned"
    /\ Len(LoginOps) = Len(FullFlow(TRUE)) + 1
    /\ CountOps("find .error") = 2

\* C18: every operation the attempt performs on the session finds it open: none
\* follows the close; on the failure paths the banner lookup (with its text)
\* and on the success path the last URL read come before the close.
C18_NoUseAfterClose ==
    /\ \A i \in DOMAIN trace : trace[i].by = "login" => trace[i].session = "open"
    /\ \A i \in DOMAIN trace :
            (trace[i].by = "login" /\ trace[i].op = "quit") =>
                /\ i = Len(LoginOps)
                /\ i > 1
                /\ trace[i - 1].op \in {"find body", "find .error", "current_url"}

\* C18: a credential error was raised: the banner was read, then the session closed
C18_Witness ==
    /\ Outcome = "CredentialError"
    /\ Len(trace) = 9
    /\ trace[8].op = "find .error"
    /\ trace[9].op = "quit"
    /\ trace[9].session = "open"

\* the success milestone of lines 161-162 has been logged or printed
MilestoneWritten ==
    \/ \E i \in DOMAIN log :
            log[i] = [level |-> "INFO", msg |-> <<"Logged in successfully!!">>]
    \/ console # <<>>

\* C19: an attempt that ended in an error has not written the success milestone.
C19_MilestoneOnlyOnSuccess == pc = "raised" => ~MilestoneWritten

\* C20: once the constructor has returned, the session is closed, the stored
\* token is the one extracted from the final URL, and get_request_token()
\* returns it without an operation on the session; before that, and after a
\* failed login, no token is stored or handed out.
C20_TokenOnlyAfterSuccess ==
    /\ [](pc = "returned" =>
            /\ session = "closed"
            /\ raised = None
            /\ request_token = rt
            /\ NonBlankTokenParams # {}
            /\ request_token = Unquote(current_url.query[Least(NonBlankTokenParams)][2])
            /\ got \in {None, request_token})
    /\ [](pc # "returned" => (request_token = None /\ got = None))
    /\ [][pc = "returned" =>
            /\ request_token' = request_token
            /\ got' # got => (got' = request_token /\ trace' = trace /\ session' = session)]_vars

\* C20: the caller closed the instance again and then read the token
C20_Witness ==
    /\ pc = "returned"
    /\ request_token = "ABC123"
    /\ got = "ABC123"
    /\ QuitCalls("caller") = 1

====
